---- MODULE Spec2Model ----
(***************************************************************************)
(* Storage::SparseIdsList (storage/storage_sparse_ids_list.cpp): an        *)
(* ordered set of slices (known range + the message ids known inside it),  *)
(* an optional total count, the slice-update event stream and the query.   *)
(*                                                                         *)
(* An optional value (base::optional<int>) is the empty set when absent    *)
(* and the singleton {v} when it holds v.  A flat_set<MsgId> is a set of   *)
(* integers; where the code walks it by iterator it is listed ascending.   *)
(* flat_set<Slice> is a sequence kept in ascending order of range.         *)
(***************************************************************************)
EXTENDS Integers, Sequences, FiniteSets

\* ---- bounds of the model ----
MaxMsgId == 4        \* the identifier space is 0..MaxMsgId
MaxIdsLen == 1       \* most identifiers handed to one addSlice call
MaxCountArg == 0     \* greatest authoritative count handed to addSlice
MaxDebt == 1         \* removeOne is not called once the estimate is -MaxDebt
MaxLimit == 1        \* greatest limitBefore / limitAfter of a query

ServerMaxMsgId == MaxMsgId
MsgIds == 0..ServerMaxMsgId
\* 0 and ServerMaxMsgId are the sentinels "start of space" and "end of
\* space" (0 is also the unset anchor): messages have the ids in between
MessageIds == 1..(ServerMaxMsgId - 1)

VARIABLES _slices, _count, call, events, results, done
vars == <<_slices, _count, call, events, results, done>>

\* ---- optional values ----
None == {}
Some(v) == {v}
Has(o) == o # {}
Val(o) == CHOOSE v \in o : TRUE

Min(a, b) == IF a < b THEN a ELSE b
Max(a, b) == IF a < b THEN b ELSE a

MsgRange(from, till) == [from |-> from, till |-> till]
FullRange == MsgRange(0, ServerMaxMsgId)

\* SparseIdsList::Slice::Slice
Slice(messages, range) == [messages |-> messages, range |-> range]

\* the elements of a flat_set<MsgId> in iteration (ascending) order
RECURSIVE Ascending(_)
Ascending(S) ==
    IF S = {} THEN <<>>
    ELSE LET m == CHOOSE x \in S : \A y \in S : x <= y
         IN  <<m>> \o Ascending(S \ {m})

SeqRange(s) == {s[i] : i \in 1..Len(s)}

\* ---- comparators of the binary searches ----
\* [](const Slice &slice, MsgId from) { return slice.range.till < from; }
TillLessEq(slice, from) == slice.range.till <= from
TillLess(slice, from) == slice.range.till < from

\* [](MsgId till, const Slice &slice) { return till < slice.range.from; }
TillBeforeFrom(till, slice) == till < slice.range.from

\* base::lower_bound(_slices, value, TillLess): index in 1..Len+1
RECURSIVE LowerBoundSlices(_, _, _, _)
LowerBoundSlices(s, value, first, count) ==
    IF count <= 0 THEN first
    ELSE LET step == count \div 2
             it == first + step
         IN  IF TillLess(s[it], value)
             THEN LowerBoundSlices(s, value, it + 1, count - (step + 1))
             ELSE LowerBoundSlices(s, value, first, step)

\* base::upper_bound(_slices, value, TillBeforeFrom): index in 1..Len+1
RECURSIVE UpperBoundSlices(_, _, _, _)
UpperBoundSlices(s, value, first, count) ==
    IF count <= 0 THEN first
    ELSE LET step == count \div 2
             it == first + step
         IN  IF ~TillBeforeFrom(value, s[it])
             THEN UpperBoundSlices(s, value, it + 1, count - (step + 1))
             ELSE UpperBoundSlices(s, value, first, step)

\* base::lower_bound(slice.messages, aroundId): index in 1..Len+1
RECURSIVE LowerBoundIds(_, _, _, _)
LowerBoundIds(m, value, first, count) ==
    IF count <= 0 THEN first
    ELSE LET step == count \div 2
             it == first + step
         IN  IF m[it] < value
             THEN LowerBoundIds(m, value, it + 1, count - (step + 1))
             ELSE LowerBoundIds(m, value, first, step)

\* ---- Slice::merge ----
MergeExpects(slice, moreNoSkipRange) ==
    /\ moreNoSkipRange.from <= slice.range.till
    /\ slice.range.from <= moreNoSkipRange.till

MergedRangeKeepTill(range, more) ==
    MsgRange(Min(range.from, more.from), range.till)
MergedRange(range, more) ==
    MsgRange(Min(range.from, more.from), Max(range.till, more.till))

SliceMergeKeepRange(slice, moreMessages, moreNoSkipRange) ==
    Slice(slice.messages \cup moreMessages, slice.range)
SliceMerge(slice, moreMessages, moreNoSkipRange) ==
    Slice(slice.messages \cup moreMessages,
          MergedRange(slice.range, moreNoSkipRange))

\* the default-constructed SparseIdsSliceUpdate: no messages pointer
\* (slice = 0), an empty range, no count
EmptyUpdate == [slice |-> 0, range |-> MsgRange(0, 0), count |-> None]

\* flat_set<Slice>::emplace: the slice takes its place in range order; an
\* equal key is not inserted twice.  at = the index of the stored slice
EmplacePos(s, slice) ==
    1 + Cardinality({i \in 1..Len(s) : s[i].range.from < slice.range.from})
Emplace(s, slice) ==
    LET at == EmplacePos(s, slice)
    IN  IF at <= Len(s) /\ s[at].range.from = slice.range.from
        THEN [slices |-> s, at |-> at]
        ELSE [slices |-> SubSeq(s, 1, at - 1) \o <<slice>>
                         \o SubSeq(s, at, Len(s)),
              at |-> at]

\* the loop of uniteAndAdd: merge slices it..uniteTill-1 into uniteFrom.
\* ok = every Expects of Slice::merge held
MergeRunSkipped(s, uniteFrom, it, uniteTill, ok) ==
    [slices |-> s, ok |-> ok]
RECURSIVE MergeRun(_, _, _, _, _)
MergeRun(s, uniteFrom, it, uniteTill, ok) ==
    IF it >= uniteTill THEN [slices |-> s, ok |-> ok]
    ELSE MergeRun(
            [s EXCEPT ![uniteFrom] =
                SliceMerge(s[uniteFrom], s[it].messages, s[it].range)],
            uniteFrom, it + 1, uniteTill,
            ok /\ MergeExpects(s[uniteFrom], s[it].range))

\* the value uniteAndAdd returns: uniteFrom->messages.size() - was
UniteResult(after, was) == after - was

\* SparseIdsList::uniteAndAdd
UniteAndAdd(s, uniteFrom, uniteTill, messages, noSkipRange) ==
    LET was == Cardinality(s[uniteFrom].messages)
        first == [s EXCEPT ![uniteFrom] =
                     SliceMerge(s[uniteFrom], messages, noSkipRange)]
        firstToErase == uniteFrom + 1
        run == MergeRun(first, uniteFrom, firstToErase, uniteTill,
                        MergeExpects(s[uniteFrom], noSkipRange))
        erased == SubSeq(run.slices, 1, uniteFrom)
                  \o SubSeq(run.slices, uniteTill, Len(s))
    IN  [slices |-> erased,
         update |-> [slice |-> uniteFrom,
                     range |-> erased[uniteFrom].range,
                     count |-> None],
         result |-> UniteResult(Cardinality(erased[uniteFrom].messages), was),
         united |-> uniteTill - uniteFrom,
         ok |-> run.ok]

\* Expects at the head of addRangeItemsAndCountNew
RangeExpects(messages, noSkipRange) ==
    \/ noSkipRange.from < noSkipRange.till
    \/ (noSkipRange.from = noSkipRange.till /\ messages = {})

\* SparseIdsList::addRangeItemsAndCountNew
AddRangeItemsAndCountNew(s, messages, noSkipRange) ==
    IF noSkipRange.from = noSkipRange.till
    THEN [slices |-> s, update |-> EmptyUpdate, result |-> 0,
          united |-> 0, ok |-> TRUE]
    ELSE LET uniteFrom == LowerBoundSlices(s, noSkipRange.from, 1, Len(s))
             uniteTill == UpperBoundSlices(s, noSkipRange.till, 1, Len(s))
         IN  IF uniteFrom < uniteTill
             THEN UniteAndAdd(s, uniteFrom, uniteTill, messages, noSkipRange)
             ELSE LET e == Emplace(s, Slice(messages, noSkipRange))
                  IN  [slices |-> e.slices,
                       update |-> [slice |-> e.at,
                                   range |-> e.slices[e.at].range,
                                   count |-> None],
                       result |-> Cardinality(e.slices[e.at].messages),
                       united |-> 0,
                       ok |-> TRUE]

\* _sliceUpdated.fire(std::move(update)): the events one call delivers
FireNothing(update) == <<>>
Fire(update) == <<update>>

\* the count bookkeeping of addRange before the full-knowledge check
CountAfterAddEveryCall(was, count, incrementCount, result) ==
    IF Has(count) THEN count
    ELSE IF incrementCount /\ Has(was)
         THEN Some(Val(was) + 1)
         ELSE was
CountAfterAdd(was, count, incrementCount, result) ==
    IF Has(count) THEN count
    ELSE IF incrementCount /\ Has(was) /\ result > 0
         THEN Some(Val(was) + result)
         ELSE was

\* if (_slices.size() == 1) { if (front().range == {0, ServerMaxMsgId}) ... }
FullCountIfUnknown(s, count) ==
    IF Len(s) = 1 /\ s[1].range = MsgRange(0, ServerMaxMsgId) /\ ~Has(count)
    THEN Some(Cardinality(s[1].messages))
    ELSE count
FullCountKeep(s, count) == count
FullCount(s, count) ==
    IF Len(s) = 1 /\ s[1].range = FullRange
    THEN Some(Cardinality(s[1].messages))
    ELSE count

\* Calls are synchronous and never nested: call describes the call that
\* has just run, with the events and query results it delivered, until it
\* returns to the caller
NoCall == [op |-> "none"]

\* update.count = _count;
UpdateCountStale(wasCount, newCount) == wasCount
UpdateCount(wasCount, newCount) == newCount

\* SparseIdsList::addRange; op names the public caller.  A failed Expects
\* ends the program, so a call that fails one has no successor state.
\* update.messages points at a stored slice: update.slice is its index
AddRange(op, messages, noSkipRange, count, incrementCount) ==
    /\ call = NoCall
    /\ ~Has(count) \/ ~incrementCount
    /\ RangeExpects(messages, noSkipRange)
    /\ LET wasCount == _count
           r == AddRangeItemsAndCountNew(_slices, messages, noSkipRange)
           newCount == FullCount(r.slices,
               CountAfterAdd(_count, count, incrementCount, r.result))
       IN  /\ r.ok
           /\ _slices' = r.slices
           /\ _count' = newCount
           /\ events' = Fire([r.update EXCEPT
                                  !.count = UpdateCount(wasCount, newCount)])
           /\ call' = [op |-> op, messages |-> messages,
                       range |-> noSkipRange, count |-> count,
                       wasCount |-> wasCount, result |-> r.result,
                       united |-> r.united]
           /\ results' = <<>>
           /\ done' = FALSE

Init ==
    /\ _slices = <<>>
    /\ _count = None
    /\ call = NoCall
    /\ events = <<>>
    /\ results = <<>>
    /\ done = FALSE

\* the ranges a caller can name: from <= till inside the identifier space
Ranges == {MsgRange(f, t) : f \in MsgIds, t \in MsgIds} \ 
          {r \in {MsgRange(f, t) : f \in MsgIds, t \in MsgIds} :
              r.from > r.till}
InRange(id, range) == range.from <= id /\ id <= range.till
\* the authoritative counts a caller can pass
CountArgs == {None} \cup {Some(c) : c \in 0..MaxCountArg}
Limits == 0..MaxLimit

\* SparseIdsList::addNew
AddNew ==
    \E messageId \in MessageIds :
        AddRange("addNew", {messageId},
                 MsgRange(messageId, ServerMaxMsgId), None, TRUE)

\* SparseIdsList::addExisting (the default incrementCount is false)
AddExistingCounting ==
    \E noSkipRange \in Ranges :
        \E messageId \in {i \in MessageIds : InRange(i, noSkipRange)} :
            AddRange("addExisting", {messageId}, noSkipRange, None, TRUE)
AddExisting ==
    \E noSkipRange \in Ranges :
        \E messageId \in {i \in MessageIds : InRange(i, noSkipRange)} :
            AddRange("addExisting", {messageId}, noSkipRange, None, FALSE)

\* SparseIdsList::addSlice; the vector of ids enters a flat_set, which
\* keeps each value once, so the argument is the set of its values
AddSlice ==
    \E noSkipRange \in Ranges :
        \E messageIds \in
              {m \in SUBSET {i \in MessageIds : InRange(i, noSkipRange)} :
                  Cardinality(m) <= MaxIdsLen} :
            \E count \in CountArgs :
                AddRange("addSlice", messageIds, noSkipRange, count, FALSE)

\* if (_count) { --*_count; }
CountKept(count) == count
CountAfterRemove(count) ==
    IF Has(count) THEN Some(Val(count) - 1) ELSE count

\* slice->range.from <= messageId
RemoveFoundAfterFrom(slice, messageId) == slice.range.from < messageId
RemoveFound(slice, messageId) == slice.range.from <= messageId

\* SparseIdsList::removeOne
RemoveOne ==
    \E messageId \in MsgIds :
        /\ call = NoCall
        /\ Has(_count) => Val(_count) > -MaxDebt
        /\ LET slice == LowerBoundSlices(_slices, messageId, 1, Len(_slices))
               found == slice # Len(_slices) + 1
                        /\ RemoveFound(_slices[slice], messageId)
           IN  /\ _slices' =
                    IF found
                    THEN [_slices EXCEPT ![slice].messages = @ \ {messageId}]
                    ELSE _slices
               /\ call' = [op |-> "removeOne", messageId |-> messageId,
                           wasCount |-> _count,
                           slice |-> IF found THEN slice ELSE 0,
                           removed |-> found
                               /\ messageId \in _slices[slice].messages]
        /\ _count' = CountAfterRemove(_count)
        /\ events' = <<>>
        /\ results' = <<>>
        /\ done' = FALSE

\* _count = 0;
RemoveAllCountKept(count) == count
RemoveAllCount(count) == Some(0)

\* SparseIdsList::removeAll
RemoveAll ==
    /\ call = NoCall
    /\ _slices' = Emplace(<<>>, Slice({}, FullRange)).slices
    /\ _count' = RemoveAllCount(_count)
    /\ call' = [op |-> "removeAll", wasCount |-> _count,
                wasSlices |-> Len(_slices)]
    /\ events' = <<>>
    /\ results' = <<>>
    /\ done' = FALSE

\* a SparseIdsListResult
Result(messageIds, skippedBefore, skippedAfter, count) ==
    [messageIds |-> messageIds, skippedBefore |-> skippedBefore,
     skippedAfter |-> skippedAfter, count |-> count]

\* the count reconciliation at the end of queryFromSlice
ReconcileNoWindow(r, count) ==
    IF Has(count)
    THEN IF ~Has(r.skippedBefore) /\ Has(r.skippedAfter)
         THEN [r EXCEPT !.count = count,
                        !.skippedBefore = Some(Val(count)
                            - Val(r.skippedAfter))]
         ELSE IF ~Has(r.skippedAfter) /\ Has(r.skippedBefore)
         THEN [r EXCEPT !.count = count,
                        !.skippedAfter = Some(Val(count)
                            - Val(r.skippedBefore))]
         ELSE [r EXCEPT !.count = count]
    ELSE r
Reconcile(r, count) ==
    IF Has(count)
    THEN IF ~Has(r.skippedBefore) /\ Has(r.skippedAfter)
         THEN [r EXCEPT !.count = count,
                        !.skippedBefore = Some(Val(count)
                            - Val(r.skippedAfter) - Len(r.messageIds))]
         ELSE IF ~Has(r.skippedAfter) /\ Has(r.skippedBefore)
         THEN [r EXCEPT !.count = count,
                        !.skippedAfter = Some(Val(count)
                            - Val(r.skippedBefore) - Len(r.messageIds))]
         ELSE [r EXCEPT !.count = count]
    ELSE r

\* auto equalOrAfter = qMin(haveEqualOrAfter, query.limitAfter + 1);
EqualOrAfterNoAnchor(haveEqualOrAfter, limitAfter) ==
    Min(haveEqualOrAfter, limitAfter)
EqualOrAfter(haveEqualOrAfter, limitAfter) ==
    Min(haveEqualOrAfter, limitAfter + 1)

\* if (slice.range.from == 0) { result.skippedBefore = haveBefore - before; }
SkippedBeforeAlways(range, haveBefore, before) == Some(haveBefore - before)
SkippedBefore(range, haveBefore, before) ==
    IF range.from = 0 THEN Some(haveBefore - before) ELSE None

\* if (slice.range.till == ServerMaxMsgId) { result.skippedAfter = ...; }
SkippedAfter(range, haveEqualOrAfter, equalOrAfter) ==
    IF range.till = ServerMaxMsgId
    THEN Some(haveEqualOrAfter - equalOrAfter) ELSE None

\* SparseIdsList::queryFromSlice; result.messageIds is a flat_set, listed
\* here in its ascending order
QueryFromSlice(query, slice, count) ==
    LET messages == Ascending(slice.messages)
        position == LowerBoundIds(messages, query.aroundId, 1, Len(messages))
        haveBefore == position - 1
        haveEqualOrAfter == (Len(messages) + 1) - position
        before == Min(haveBefore, query.limitBefore)
        equalOrAfter == EqualOrAfter(haveEqualOrAfter, query.limitAfter)
        ids == SubSeq(messages, position - before,
                      position + equalOrAfter - 1)
    IN  Reconcile(
            Result(Ascending(SeqRange(ids)),
                   SkippedBefore(slice.range, haveBefore, before),
                   SkippedAfter(slice.range, haveEqualOrAfter, equalOrAfter),
                   None),
            count)

\* the slice the query looks at: query.aroundId ? lower_bound : end()
QuerySliceLast(s, aroundId) ==
    IF aroundId # 0 THEN LowerBoundSlices(s, aroundId, 1, Len(s))
    ELSE IF Len(s) > 0 THEN Len(s) ELSE Len(s) + 1
QuerySlice(s, aroundId) ==
    IF aroundId # 0 THEN LowerBoundSlices(s, aroundId, 1, Len(s))
    ELSE Len(s) + 1

\* slice->range.from <= query.aroundId
StartsBefore(slice, aroundId) == slice.range.from < aroundId
StartsAtOrBefore(slice, aroundId) == slice.range.from <= aroundId

\* SparseIdsList::query, run by one consumer: results holds what
\* put_next delivered, done tells that put_done followed
Query ==
    \E aroundId \in MsgIds, limitBefore \in Limits, limitAfter \in Limits :
        LET query == [aroundId |-> aroundId, limitBefore |-> limitBefore,
                      limitAfter |-> limitAfter]
            slice == QuerySlice(_slices, aroundId)
            found == slice # Len(_slices) + 1
                     /\ StartsAtOrBefore(_slices[slice], aroundId)
        IN  /\ call = NoCall
            /\ results' =
                    IF found
                    THEN <<QueryFromSlice(query, _slices[slice], _count)>>
                    ELSE IF Has(_count)
                    THEN <<Result(<<>>, None, None, _count)>>
                    ELSE <<>>
            /\ call' = [op |-> "query", query |-> query,
                        slice |-> IF found THEN slice ELSE 0]
            /\ events' = <<>>
            /\ done' = TRUE
            /\ UNCHANGED <<_slices, _count>>

\* the call returns; what it delivered is gone with it
Return ==
    /\ call # NoCall
    /\ call' = NoCall
    /\ events' = <<>>
    /\ results' = <<>>
    /\ done' = FALSE
    /\ UNCHANGED <<_slices, _count>>

Next ==
    \/ AddNew
    \/ AddExisting
    \/ AddSlice
    \/ RemoveOne
    \/ RemoveAll
    \/ Query
    \/ Return

Spec == Init /\ [][Next]_vars

TypeOK ==
    /\ \A i \in 1..Len(_slices) :
          /\ _slices[i].messages \subseteq MessageIds
          /\ _slices[i].range \in Ranges
    /\ Cardinality(_count) <= 1
    /\ Len(events) <= 1
    /\ Len(results) <= 1
    /\ done \in BOOLEAN

\* ---- properties ----
AddOps == {"addNew", "addExisting", "addSlice"}
WholeSpace(s) == Len(s) = 1 /\ s[1].range = FullRange
SetMin(S) == CHOOSE x \in S : \A y \in S : x <= y
SetMax(S) == CHOOSE x \in S : \A y \in S : y <= x
StoredIds(s) == UNION {s[i].messages : i \in 1..Len(s)}

\* C1: after any sequence of mutating calls, of every two stored slices
\* the earlier one ends strictly before the later one starts: no two stored
\* ranges overlap or touch.
NonOverlap ==
    \A i, j \in 1..Len(_slices) :
        i < j => _slices[i].range.till < _slices[j].range.from

\* an add call has just placed a new slice right next to a stored one
NonOverlapWitness ==
    /\ call.op \in AddOps
    /\ call.united = 0
    /\ Len(_slices) = 2
    /\ _slices[1].range.till + 1 = _slices[2].range.from

\* C2: an add call with identifiers I and a range R of non-zero width
\* replaces the stored slices that overlap or touch R by one slice whose
\* range runs from the least from to the greatest till of them and R and
\* whose identifiers are theirs together with I; every other slice stays.
Touching(s, R) ==
    {i \in 1..Len(s) :
        s[i].range.from <= R.till /\ R.from <= s[i].range.till}
FusedSlice(s, T, I, R) ==
    Slice(I \cup UNION {s[i].messages : i \in T},
          MsgRange(SetMin({R.from} \cup {s[i].range.from : i \in T}),
                   SetMax({R.till} \cup {s[i].range.till : i \in T})))
MergeCorrect ==
    [][(call'.op \in AddOps /\ call'.range.from < call'.range.till) =>
        LET T == Touching(_slices, call'.range)
            kept == {_slices[i] : i \in (1..Len(_slices)) \ T}
            fused == FusedSlice(_slices, T, call'.messages, call'.range)
        IN  /\ SeqRange(_slices') = kept \cup {fused}
            /\ Len(_slices') = Cardinality(kept) + 1
            /\ fused \notin kept]_vars

\* an add call has just fused two stored slices and its own range into one
MergeCorrectWitness ==
    /\ call.op \in AddOps
    /\ call.united = 2
    /\ Len(_slices) = 1
    /\ _slices[1].range # call.range

\* C3 as stated: every addNew, addExisting, addSlice and removeOne call
\* delivers exactly one slice update before it returns.
EveryMutationFires ==
    call.op \in AddOps \cup {"removeOne"} => Len(events) = 1

\* C3 as amended: every addNew, addExisting and addSlice call delivers
\* exactly one slice update before it returns; removeOne and removeAll
\* deliver none.
AddsFireOnce ==
    /\ call.op \in AddOps => Len(events) = 1
    /\ call.op \in {"removeOne", "removeAll"} => Len(events) = 0

\* an add call that changed nothing (zero-width range) still delivered its
\* one update
AddsFireOnceWitness ==
    /\ call.op = "addSlice"
    /\ call.range.from = call.range.till
    /\ Len(_slices) > 0
    /\ Len(events) = 1

\* C4 as stated: a query with the unset anchor (aroundId = 0) on an index
\* with at least one slice is answered from the last stored slice.
UnsetAnchorUsesLastSlice ==
    (call.op = "query" /\ call.query.aroundId = 0 /\ Len(_slices) > 0) =>
        results = <<QueryFromSlice(call.query, _slices[Len(_slices)],
                                   _count)>>

\* C4 as amended: a query with the unset anchor is never answered from a
\* slice: it delivers a result carrying only the total count when the
\* count is known, and no result otherwise.
UnsetAnchorCountOnly ==
    (call.op = "query" /\ call.query.aroundId = 0) =>
        /\ call.slice = 0
        /\ results = IF Has(_count)
                      THEN <<Result(<<>>, None, None, _count)>>
                      ELSE <<>>

\* an unset-anchor query has run on an index whose last slice starts at 0
\* and holds identifiers
UnsetAnchorWitness ==
    /\ call.op = "query"
    /\ call.query.aroundId = 0
    /\ Len(_slices) > 0
    /\ _slices[Len(_slices)].range.from = 0
    /\ _slices[Len(_slices)].messages # {}
    /\ Has(_count)

\* C5: addNew(id) with a known count, not ending in one whole-space slice,
\* adds 1 to the count if id was stored in no slice and 0 if it was.
AddNewCountsNew ==
    [][(/\ call'.op = "addNew"
        /\ Has(_count)
        /\ ~WholeSpace(_slices')) =>
        LET id == CHOOSE i \in call'.messages : TRUE
        IN  _count' = Some(Val(_count)
                + (IF id \in StoredIds(_slices) THEN 0 ELSE 1))]_vars

\* C6: right after an add call that leaves exactly one slice spanning the
\* whole space, the count is the number of identifiers of that slice.
FullCountLock ==
    (call.op \in AddOps /\ WholeSpace(_slices)) =>
        _count = Some(Cardinality(_slices[1].messages))

\* addSlice was given a count and met a known estimate; both differ from
\* the size the whole-space slice ended with
FullCountLockWitness ==
    /\ call.op = "addSlice"
    /\ WholeSpace(_slices)
    /\ Has(call.count) /\ call.count # _count
    /\ Has(call.wasCount) /\ call.wasCount # _count
    /\ _slices[1].messages # {}

\* C7: removeOne(id) takes exactly one off a known count, whether or not
\* id was stored or lay in a known range, and leaves an absent count absent.
RemoveDecrements ==
    [][call'.op = "removeOne" =>
        _count' = IF Has(_count) THEN Some(Val(_count) - 1) ELSE None]_vars

\* removeOne has run with a known count on an identifier outside every
\* stored range
RemoveDecrementsWitness ==
    /\ call.op = "removeOne"
    /\ call.slice = 0
    /\ Len(_slices) > 0
    /\ Has(call.wasCount)
    /\ _count = Some(Val(call.wasCount) - 1)

\* C8: a query answered from a slice that reaches neither 0 nor the
\* maximum reports neither skip count, count known or not; with no count
\* known skippedBefore needs from = 0 and skippedAfter needs till = maximum.
SkipGated ==
    (call.op = "query" /\ call.slice # 0) =>
        LET range == _slices[call.slice].range
            r == results[1]
        IN  /\ (range.from # 0 /\ range.till # ServerMaxMsgId) =>
                    (~Has(r.skippedBefore) /\ ~Has(r.skippedAfter))
            /\ ~Has(_count) =>
                    /\ Has(r.skippedBefore) => range.from = 0
                    /\ Has(r.skippedAfter) => range.till = ServerMaxMsgId

\* a query with a known count was answered, with identifiers, from a slice
\* strictly inside the space
SkipGatedWitness ==
    /\ call.op = "query"
    /\ call.slice # 0
    /\ _slices[call.slice].range.from # 0
    /\ _slices[call.slice].range.till # ServerMaxMsgId
    /\ Has(_count)
    /\ Len(results[1].messageIds) > 0

\* C9: a query answered from a slice with identifiers S returns, in
\* ascending order, the min(|S below anchor|, limitBefore) greatest
\* elements of S below the anchor and the min(|S at or above anchor|,
\* limitAfter + 1) least elements of S at or above it.
Below(S, a) == {x \in S : x < a}
AtOrAbove(S, a) == {x \in S : x >= a}
Window(S, q) ==
    LET nb == Min(Cardinality(Below(S, q.aroundId)), q.limitBefore)
        na == Min(Cardinality(AtOrAbove(S, q.aroundId)), q.limitAfter + 1)
    IN  {x \in Below(S, q.aroundId) :
            Cardinality({y \in Below(S, q.aroundId) : y > x}) < nb}
        \cup
        {x \in AtOrAbove(S, q.aroundId) :
            Cardinality({y \in AtOrAbove(S, q.aroundId) : y < x}) < na}
QueryWindow ==
    (call.op = "query" /\ call.slice # 0) =>
        LET ids == results[1].messageIds
        IN  /\ SeqRange(ids) = Window(_slices[call.slice].messages, call.query)
            /\ \A i \in 1..(Len(ids) - 1) : ids[i] < ids[i + 1]

\* a query was answered from a slice that holds more identifiers below the
\* anchor than limitBefore lets through and enough at or above it to fill
\* the limitAfter + 1 places
QueryWindowWitness ==
    /\ call.op = "query"
    /\ call.slice # 0
    /\ LET S == _slices[call.slice].messages
           q == call.query
       IN  /\ Cardinality(Below(S, q.aroundId)) > q.limitBefore
           /\ q.limitBefore > 0
           /\ Cardinality(AtOrAbove(S, q.aroundId)) >= q.limitAfter + 1
           /\ Len(results[1].messageIds) = q.limitBefore + q.limitAfter + 1

\* C10: a query answered from a slice with a known count c: with exactly
\* one absolute bound the other side's skip count is c minus the known
\* skip count minus the number of returned identifiers; with both bounds
\* absolute both skip counts are the directly computed ones; with neither
\* absolute neither is reported.
CountReconciled ==
    (call.op = "query" /\ call.slice # 0 /\ Has(_count)) =>
        LET range == _slices[call.slice].range
            S == _slices[call.slice].messages
            q == call.query
            r == results[1]
            c == Val(_count)
            haveBefore == Cardinality(Below(S, q.aroundId))
            haveAfter == Cardinality(AtOrAbove(S, q.aroundId))
            directBefore == haveBefore - Min(haveBefore, q.limitBefore)
            directAfter == haveAfter - Min(haveAfter, q.limitAfter + 1)
            returned == Len(r.messageIds)
            fromAbs == range.from = 0
            tillAbs == range.till = ServerMaxMsgId
        IN  /\ (fromAbs /\ ~tillAbs) =>
                    /\ r.skippedBefore = Some(directBefore)
                    /\ r.skippedAfter = Some(c - directBefore - returned)
            /\ (~fromAbs /\ tillAbs) =>
                    /\ r.skippedAfter = Some(directAfter)
                    /\ r.skippedBefore = Some(c - directAfter - returned)
            /\ (fromAbs /\ tillAbs) =>
                    /\ r.skippedBefore = Some(directBefore)
                    /\ r.skippedAfter = Some(directAfter)
            /\ (~fromAbs /\ ~tillAbs) =>
                    /\ ~Has(r.skippedBefore)
                    /\ ~Has(r.skippedAfter)

\* a query with a known count was answered, with identifiers, from a slice
\* that starts at 0 and stops short of the maximum
CountReconciledWitness ==
    /\ call.op = "query"
    /\ call.slice # 0
    /\ Has(_count)
    /\ _slices[call.slice].range.from = 0
    /\ _slices[call.slice].range.till # ServerMaxMsgId
    /\ Len(results[1].messageIds) > 0
    /\ Val(results[1].skippedBefore) > 0

\* C11: performing the same add call a second time, right after the first,
\* leaves the slices and the total count as the first call left them, and
\* the second call's merge reports zero new identifiers.
ReAddIdempotent ==
    call.op \in AddOps =>
        LET again == AddRangeItemsAndCountNew(_slices, call.messages,
                                              call.range)
            againCount == FullCount(again.slices,
                CountAfterAdd(_count, call.count, call.op = "addNew",
                              again.result))
        IN  /\ again.ok
            /\ again.slices = _slices
            /\ againCount = _count
            /\ again.result = 0

\* the state a repeated add call ends in: the call found its identifiers
\* and its range in one stored slice, added nothing and kept the count
ReAddWitness ==
    /\ call.op = "addNew"
    /\ call.result = 0
    /\ call.united = 1
    /\ Has(call.wasCount)
    /\ call.wasCount = _count
    /\ ~WholeSpace(_slices)
    /\ \E i \in 1..Len(_slices) :
          /\ call.messages \subseteq _slices[i].messages
          /\ _slices[i].range.from <= call.range.from
          /\ call.range.till <= _slices[i].range.till

\* C12: after removeAll the index holds exactly one slice, with the range
\* [0, maximum] and no identifiers, the total count is known and 0, and
\* the call delivered no slice update.
RemoveAllResets ==
    call.op = "removeAll" =>
        /\ Len(_slices) = 1
        /\ _slices[1].range = FullRange
        /\ _slices[1].messages = {}
        /\ _count = Some(0)
        /\ events = <<>>

\* removeAll has run on two slices and a known count other than 0
RemoveAllWitness ==
    /\ call.op = "removeAll"
    /\ call.wasSlices = 2
    /\ Has(call.wasCount)
    /\ call.wasCount # Some(0)

\* C13: a query with a set anchor is answered from a slice exactly when a
\* stored slice has from <= anchor <= till, and then from that slice; when
\* none has, it delivers a result with only the total count if the count
\* is known and nothing otherwise; in every case it then completes.
Containing(s, id) == {i \in 1..Len(s) : InRange(id, s[i].range)}
AbsentIsValue ==
    (call.op = "query" /\ call.query.aroundId # 0) =>
        LET in == Containing(_slices, call.query.aroundId)
        IN  /\ done
            /\ call.slice # 0 <=> in # {}
            /\ in # {} =>
                  /\ in = {call.slice}
                  /\ Len(results) = 1
                  /\ SeqRange(results[1].messageIds)
                        \subseteq _slices[call.slice].messages
            /\ in = {} =>
                  results = IF Has(_count)
                            THEN <<Result(<<>>, None, None, _count)>>
                            ELSE <<>>

\* a query with a set anchor that lies in the gap between two stored
\* slices, the total count being known
AbsentIsValueWitness ==
    /\ call.op = "query"
    /\ call.query.aroundId # 0
    /\ Len(_slices) = 2
    /\ _slices[1].range.till < call.query.aroundId
    /\ call.query.aroundId < _slices[2].range.from
    /\ Has(_count)
    /\ done

\* C14: addExisting leaves the total count as it was (absent stays
\* absent), unless it leaves exactly one slice spanning the whole space,
\* and then the count is the number of identifiers of that slice.
AddExistingKeepsCount ==
    call.op = "addExisting" =>
        _count = IF WholeSpace(_slices)
                 THEN Some(Cardinality(_slices[1].messages))
                 ELSE call.wasCount

\* addExisting has added a new identifier to a stored slice while the
\* count was known
AddExistingWitness ==
    /\ call.op = "addExisting"
    /\ call.result > 0
    /\ call.united >= 1
    /\ Has(call.wasCount)
    /\ ~WholeSpace(_slices)

\* C15: when every add call supplies only identifiers inside its known
\* range, every stored identifier lies within the range of its slice, so
\* no identifier is stored in two slices.
SliceContainment ==
    /\ \A i \in 1..Len(_slices) :
          \A id \in _slices[i].messages : InRange(id, _slices[i].range)
    /\ \A i, j \in 1..Len(_slices) :
          i # j => _slices[i].messages \cap _slices[j].messages = {}

\* two slices are stored, each with identifiers, the first one grown by
\* a merge
SliceContainmentWitness ==
    /\ call.op \in AddOps
    /\ call.united = 1
    /\ call.result > 0
    /\ Len(_slices) = 2
    /\ _slices[1].messages # {}
    /\ _slices[2].messages # {}

\* C16 as stated: in every reachable state whose index is exactly one
\* slice spanning the whole space, the total count is known and equals the
\* number of identifiers of that slice.
WholeSpaceCountExact ==
    WholeSpace(_slices) =>
        _count = Some(Cardinality(_slices[1].messages))

\* C16 as amended: in every such state the total count is known and never
\* exceeds the number of identifiers of the slice, and it equals that
\* number right after every addNew, addExisting, addSlice and removeAll
\* call; removeOne of an identifier that is not stored leaves it lower.
WholeSpaceCountAtMost ==
    WholeSpace(_slices) =>
        /\ Has(_count)
        /\ Val(_count) <= Cardinality(_slices[1].messages)
        /\ call.op \in AddOps \cup {"removeAll"} =>
              Val(_count) = Cardinality(_slices[1].messages)
        /\ (call.op = "removeOne" /\ ~call.removed) =>
              Val(_count) < Cardinality(_slices[1].messages)

\* removeOne of an identifier that is not stored has just run on a
\* whole-space slice that holds identifiers
WholeSpaceCountWitness ==
    /\ WholeSpace(_slices)
    /\ call.op = "removeOne"
    /\ ~call.removed
    /\ _slices[1].messages # {}
    /\ call.wasCount = Some(Cardinality(_slices[1].messages))

\* C17 as stated: the update every add call delivers refers to a slice
\* stored at that moment, carries that slice's range, which covers the
\* call's known range, and carries the total count as the call left it.
UpdateNamesStoredSlice ==
    call.op \in AddOps =>
        /\ Len(events) = 1
        /\ events[1].slice \in 1..Len(_slices)
        /\ events[1].range = _slices[events[1].slice].range
        /\ events[1].range.from <= call.range.from
        /\ call.range.till <= events[1].range.till
        /\ events[1].count = _count

\* C17 as amended: the update of an add call whose known range has
\* non-zero width refers to a slice stored at that moment, which holds the
\* call's identifiers, carries that slice's range, which covers the call's
\* known range, and carries the total count as the call left it; the
\* update of an add call with a zero-width range refers to no slice and
\* carries only that count.
UpdatePayload ==
    call.op \in AddOps =>
        /\ Len(events) = 1
        /\ events[1].count = _count
        /\ call.range.from < call.range.till =>
              /\ events[1].slice \in 1..Len(_slices)
              /\ events[1].range = _slices[events[1].slice].range
              /\ call.messages \subseteq _slices[events[1].slice].messages
              /\ events[1].range.from <= call.range.from
              /\ call.range.till <= events[1].range.till
        /\ call.range.from = call.range.till =>
              events[1].slice = 0

\* an add call has fused its range into the second of two stored slices
\* and its count bookkeeping changed a known count
UpdatePayloadWitness ==
    /\ call.op = "addNew"
    /\ Len(_slices) = 2
    /\ Len(events) = 1
    /\ events[1].slice = 2
    /\ events[1].range # call.range
    /\ Has(call.wasCount)
    /\ call.wasCount # _count

\* C18: a mutating call never takes an identifier out of the known
\* ranges: every range stored before the call lies inside one range
\* stored after it.
Covered(s, x) == \E i \in 1..Len(s) : InRange(x, s[i].range)
CoverageGrows ==
    [][call'.op \in AddOps \cup {"removeOne", "removeAll"} =>
        /\ \A x \in MsgIds : Covered(_slices, x) => Covered(_slices', x)
        /\ \A i \in 1..Len(_slices) :
              \E j \in 1..Len(_slices') :
                  /\ _slices'[j].range.from <= _slices[i].range.from
                  /\ _slices[i].range.till <= _slices'[j].range.till]_vars

\* an add call has fused two stored slices into one that reaches past its
\* own known range
CoverageGrowsWitness ==
    /\ call.op = "addExisting"
    /\ call.united = 2
    /\ Len(_slices) = 1
    /\ call.range.till < _slices[1].range.till

\* C19: after removeOne(id) no slice stores id; every other stored
\* identifier, the number of slices and every range are as before, and
\* when id lies in no stored range the slices are as before.
RemoveOneFrame ==
    [][call'.op = "removeOne" =>
        /\ Len(_slices') = Len(_slices)
        /\ \A i \in 1..Len(_slices) :
              /\ _slices'[i].range = _slices[i].range
              /\ _slices'[i].messages =
                    _slices[i].messages \ {call'.messageId}
        /\ call'.messageId \notin StoredIds(_slices')
        /\ ~Covered(_slices, call'.messageId) => _slices' = _slices]_vars

\* removeOne has removed the identifier at the very start of the second
\* of two stored slices
RemoveOneFrameWitness ==
    /\ call.op = "removeOne"
    /\ call.removed
    /\ call.slice = 2
    /\ Len(_slices) = 2
    /\ _slices[2].range.from = call.messageId
    /\ _slices[1].messages # {}

\* C20: every skippedBefore and skippedAfter a query delivers, the ones
\* derived from the total count included, is at least 0.
SkipsNonNegative ==
    (call.op = "query" /\ Len(results) = 1) =>
        /\ Has(results[1].skippedBefore) => Val(results[1].skippedBefore) >= 0
        /\ Has(results[1].skippedAfter) => Val(results[1].skippedAfter) >= 0
====
